---- MODULE Spec2Model ----
(***************************************************************************)
(* Trajectory-optimisation transcriptions of nikihowe/myriad_temp:         *)
(*   hs  - src/hermite_simpson_direct_collocation.py                       *)
(*   ms  - src/jax_+_scipy_van_der_pol_multiple_shooting.py                *)
(*   ss  - src/jax_+_scipy_van_der_pol_single_shooting.py                  *)
(*   sys - src/source/systems.py with src/source/config.py                 *)
(*                                                                         *)
(* Real numbers are exact rationals <<numerator, denominator>> in lowest   *)
(* terms with a positive denominator; +inf, -inf and nan are <<1,0>>,      *)
(* <<-1,0>> and <<0,0>>.  The rounding of IEEE doubles is not modelled.    *)
(* Python indices are 0-based; sequences here are 1-based, so the element  *)
(* a[k] of the source is a[k+1] of the model.                              *)
(***************************************************************************)
EXTENDS Integers, Sequences, FiniteSets, TLC

VARIABLES script, pc, nintervals, guess, shapes, x0flat, bnds, sol, eqc,
          query, system, icv, rollout, objv

vars == <<script, pc, nintervals, guess, shapes, x0flat, bnds, sol, eqc,
          query, system, icv, rollout, objv>>

(***************************** bounds of the model *************************)
\* largest number of intervals / shooting segments explored
MaxIntervals == 2
\* interpolants are queried every interval_duration / (2*QueryRefine)
QueryRefine == 2

(***************************** exact rationals *****************************)
Abs(n) == IF n < 0 THEN -n ELSE n

RECURSIVE GCD(_, _)
GCD(a, b) == IF b = 0 THEN a ELSE GCD(b, a % b)

Norm(n, d) ==
  IF d = 0 THEN <<IF n > 0 THEN 1 ELSE IF n < 0 THEN -1 ELSE 0, 0>>
  ELSE LET g == GCD(Abs(n), Abs(d))
           s == IF d < 0 THEN -1 ELSE 1
       IN  <<(s * n) \div g, (s * d) \div g>>

R(n) == <<n, 1>>
Frac(n, d) == Norm(n, d)
Zero == R(0)
One == R(1)
Inf == <<1, 0>>
NegInf == <<-1, 0>>
NaN == <<0, 0>>

Neg(a) == <<-a[1], a[2]>>

\* IEEE rules where an operand is infinite or nan: inf - inf and 0 * inf
\* are nan
Add(a, b) ==
  IF a[2] = 0 \/ b[2] = 0
  THEN IF a = NaN \/ b = NaN \/ (a[2] = 0 /\ b[2] = 0 /\ a # b) THEN NaN
       ELSE IF a[2] = 0 THEN a ELSE b
  ELSE LET g == GCD(a[2], b[2])
       IN  Norm(a[1] * (b[2] \div g) + b[1] * (a[2] \div g), (a[2] \div g) * b[2])

Sub(a, b) == Add(a, Neg(b))

Mul(a, b) ==
  IF a[2] = 0 \/ b[2] = 0
  THEN Norm(a[1] * b[1], 0)
  ELSE LET g1 == GCD(Abs(a[1]), b[2])
           g2 == GCD(Abs(b[1]), a[2])
       IN  Norm((a[1] \div g1) * (b[1] \div g2), (a[2] \div g2) * (b[2] \div g1))

Inv(a) == Norm(a[2], a[1])

Div(a, b) == Mul(a, Inv(b))

Sq(a) == Mul(a, a)

\* IEEE ordering: nan compares false, -inf <= everything <= +inf
LE(a, b) ==
  IF a = NaN \/ b = NaN THEN FALSE
  ELSE IF a = NegInf \/ b = Inf THEN TRUE
  ELSE IF a = Inf \/ b = NegInf THEN FALSE
  ELSE a[1] * b[2] <= b[1] * a[2]

Floor(a) == a[1] \div a[2]
Ceil(a) == -((-a[1]) \div a[2])

\* Python evaluates an expression before it binds the value to a name: v is
\* evaluated first, then F is applied to its value
Bind(v, F(_)) == CHOOSE r \in {F(w) : w \in {v}} : TRUE

(***************************** vectors and arrays **************************)
VAdd(u, v) == [i \in 1..Len(u) |-> Add(u[i], v[i])]
VSub(u, v) == [i \in 1..Len(u) |-> Sub(u[i], v[i])]
VScale(c, v) == [i \in 1..Len(v) |-> Mul(c, v[i])]
Dot(u, v) ==
  LET RECURSIVE S(_)
      S(i) == IF i = 0 THEN Zero ELSE Add(S(i - 1), Mul(u[i], v[i]))
  IN  S(Len(u))

RECURSIVE Concat(_)
Concat(ss) == IF ss = <<>> THEN <<>> ELSE Head(ss) \o Concat(Tail(ss))

\* a[:-1] and a[1:]
AllButLast(a) == SubSeq(a, 1, Len(a) - 1)
AllButFirst(a) == SubSeq(a, 2, Len(a))

\* an array is a record: ndim 1 carries a sequence of numbers, ndim 2 a
\* sequence of rows
Arr1(v) == [ndim |-> 1, val |-> v]
Arr2(rows, ncols) == [ndim |-> 2, ncols |-> ncols, val |-> rows]

Shape(a) == IF a.ndim = 1 THEN <<Len(a.val)>> ELSE <<Len(a.val), a.ncols>>

Size(shape) == IF Len(shape) = 1 THEN shape[1] ELSE shape[1] * shape[2]

\* column-major (Fortran order) flattening, which np.ravel does not do
Ravel_colmajor(a) ==
  IF a.ndim = 1 THEN a.val
  ELSE Concat([j \in 1..a.ncols |-> [r \in 1..Len(a.val) |-> a.val[r][j]]])

\* np.ravel / np.reshape(a, -1): row-major (C order)
Ravel(a) == IF a.ndim = 1 THEN a.val ELSE Concat(a.val)

\* np.reshape(flat, (-1, ncols)) as a sequence of rows
ReshapeRows(flat, ncols) ==
  [r \in 1..(Len(flat) \div ncols) |-> SubSeq(flat, (r - 1) * ncols + 1, r * ncols)]

Reshape(flat, shape) ==
  IF Len(shape) = 1 THEN Arr1(flat)
  ELSE Arr2(ReshapeRows(flat, shape[2]), shape[2])

(***************************** flatten / unflatten *************************)
\* jax.flatten_util.ravel_pytree on a tuple of arrays: the leaves are
\* ravelled in tuple order and concatenated; the closure it returns keeps
\* the leaf shapes
ravel_pytree(tree) ==
  <<Concat([i \in 1..Len(tree) |-> Ravel(tree[i])]),
    [i \in 1..Len(tree) |-> Shape(tree[i])]>>

RECURSIVE Offset(_, _)
Offset(shp, i) == IF i = 1 THEN 0 ELSE Offset(shp, i - 1) + Size(shp[i - 1])

unravel(shp, flat) ==
  [i \in 1..Len(shp) |->
     Reshape(SubSeq(flat, Offset(shp, i) + 1, Offset(shp, i) + Size(shp[i])),
             shp[i])]

(***************************** Hermite-Simpson collocation *****************)
\* np.pi, held as the rational 355/113
Pi == Frac(355, 113)

\* np.sin and np.cos, tabulated where they are rational: the multiples of
\* pi/2 that the sampled states use
Sin(theta) ==
  CASE theta = Zero -> Zero
    [] theta = Div(Pi, R(2)) -> One
    [] theta = Pi -> Zero

Cos(theta) ==
  CASE theta = Zero -> One
    [] theta = Div(Pi, R(2)) -> Zero
    [] theta = Pi -> Neg(One)

\* make_cartpole defaults
mc == R(2)
mp == Frac(1, 2)
length == Frac(1, 2)
gravity == Frac(981, 100)

\* the dynamics f returned by make_cartpole()
hs_f(state, control) ==
  LET theta == state[2]
      x_vel == state[3]
      theta_vel == state[4]
      den == Add(mc, Mul(mp, Sq(Sin(theta))))
      x_accel ==
        Mul(Inv(den),
            Add(control,
                Mul(Mul(mp, Sin(theta)),
                    Add(Mul(length, Sq(theta_vel)), Mul(gravity, Cos(theta))))))
      theta_accel ==
        Mul(Inv(Mul(length, den)),
            Sub(Sub(Mul(Neg(control), Cos(theta)),
                    Mul(Mul(Mul(Mul(mp, length), Sq(theta_vel)), Cos(theta)),
                        Sin(theta))),
                Mul(Mul(Add(mc, mp), gravity), Sin(theta))))
  IN  <<x_vel, theta_vel, x_accel, theta_accel>>

hs_horizon == R(2)

interval_duration(horizon, n) == Div(horizon, R(n))

\* the defect with the midpoint weighted 2 (trapezoid-like) instead of 4
hs_defect_weight2(dt, state, mid_state, next_state, control, mid_control, next_control) ==
  Bind(VSub(next_state, state), LAMBDA rhs :
  Bind(VScale(Div(dt, R(6)),
              VAdd(VAdd(hs_f(state, control),
                        VScale(R(2), hs_f(mid_state, mid_control))),
                   hs_f(next_state, next_control))), LAMBDA lhs :
    VSub(rhs, lhs)))

hs_defect(dt, state, mid_state, next_state, control, mid_control, next_control) ==
  Bind(VSub(next_state, state), LAMBDA rhs :
  Bind(VScale(Div(dt, R(6)),
              VAdd(VAdd(hs_f(state, control),
                        VScale(R(4), hs_f(mid_state, mid_control))),
                   hs_f(next_state, next_control))), LAMBDA lhs :
    VSub(rhs, lhs)))

\* jax.vmap(hs_defect): one defect per leading index
batched_defects(dt, states, mid_states, next_states, controls, mid_controls, next_controls) ==
  [k \in 1..Len(mid_states) |->
     hs_defect(dt, states[k], mid_states[k], next_states[k],
               controls[k], mid_controls[k], next_controls[k])]

hs_equality_constraints(horizon, n, shp, flat_variables) ==
  Bind(unravel(shp, flat_variables), LAMBDA un :
    LET states == un[1].val
        mid_states == un[2].val
        controls == un[3].val
        mid_controls == un[4].val
    IN  Concat(batched_defects(interval_duration(horizon, n),
                               AllButLast(states), mid_states, AllButFirst(states),
                               AllButLast(controls), mid_controls, AllButFirst(controls))))

\* Hermite-Simpson interpolation constraint of one interval (the source
\* spells its fifth parameter mid_cotrol and does not use it)
hs_interpolation(dt, state, mid_state, next_state, control, mid_cotrol, next_control) ==
  Bind(hs_f(state, control), LAMBDA fstate :
  Bind(hs_f(next_state, next_control), LAMBDA fnext :
    VSub(VSub(mid_state, VScale(Frac(1, 2), VAdd(state, next_state))),
         VScale(Div(dt, R(8)), VSub(fstate, fnext)))))

\* jax.vmap(hs_interpolation)
batched_interpolations(dt, states, mid_states, next_states, controls, mid_controls, next_controls) ==
  [k \in 1..Len(mid_states) |->
     hs_interpolation(dt, states[k], mid_states[k], next_states[k],
                      controls[k], mid_controls[k], next_controls[k])]

hs_interpolation_constraints(horizon, n, shp, flat_variables) ==
  Bind(unravel(shp, flat_variables), LAMBDA un :
    LET states == un[1].val
        mid_states == un[2].val
        controls == un[3].val
        mid_controls == un[4].val
    IN  Concat(batched_interpolations(interval_duration(horizon, n),
                               AllButLast(states), mid_states, AllButFirst(states),
                               AllButLast(controls), mid_controls, AllButFirst(controls))))

dist == Frac(4, 5)
umax == R(100)

\* raw per-dimension state bounds, one row of state_bounds (lines 111-121)
hs_raw_row ==
  <<Mul(R(-2), dist), Mul(R(2), dist), Mul(R(-2), Pi), Mul(R(2), Pi),
    NegInf, Inf, NegInf, Inf>>

\* state_bounds with the last row zeroed and never set to the target
hs_state_bounds_unpinned_end(nvars) ==
  LET b1 == [k \in 1..nvars |-> hs_raw_row]
      b2 == [b1 EXCEPT ![1] = [j \in 1..8 |-> Zero]]
  IN  [b2 EXCEPT ![nvars] = [j \in 1..8 |-> Zero]]

\* state_bounds after lines 107-128
hs_state_bounds(nvars) ==
  LET b1 == [k \in 1..nvars |-> hs_raw_row]
      b2 == [b1 EXCEPT ![1] = [j \in 1..8 |-> Zero]]
      b3 == [b2 EXCEPT ![nvars] = [j \in 1..8 |-> Zero]]
  IN  [b3 EXCEPT ![nvars][1] = dist, ![nvars][2] = dist,
                 ![nvars][3] = Pi, ![nvars][4] = Pi]

hs_mid_state_bounds(nvars) == [k \in 1..(nvars - 1) |-> hs_raw_row]

hs_control_bounds(nvars) == [k \in 1..nvars |-> <<Neg(umax), umax>>]

hs_mid_control_bounds(nvars) == [k \in 1..(nvars - 1) |-> <<Neg(umax), umax>>]

\* the four tables stacked with the midpoint states ahead of the node states
hs_bounds_mid_first(n) ==
  LET nvars == n + 1
  IN  ReshapeRows(Concat(hs_mid_state_bounds(nvars)), 2)
      \o ReshapeRows(Concat(hs_state_bounds(nvars)), 2)
      \o hs_control_bounds(nvars)
      \o hs_mid_control_bounds(nvars)

\* the bounds table returned by make_hs_nlp (np.vstack of the four tables)
hs_bounds(n) ==
  LET nvars == n + 1
  IN  ReshapeRows(Concat(hs_state_bounds(nvars)), 2)
      \o ReshapeRows(Concat(hs_mid_state_bounds(nvars)), 2)
      \o hs_control_bounds(nvars)
      \o hs_mid_control_bounds(nvars)

\* initial guess, lines 231-254
linear_interpolation(nvars) == [k \in 1..nvars |-> Frac(k - 1, nvars - 1)]

initial_states(nvars) ==
  [k \in 1..nvars |-> VScale(linear_interpolation(nvars)[k], <<dist, Pi, Zero, Zero>>)]

hs_mid_states(nvars) ==
  LET s == initial_states(nvars)
  IN  [k \in 1..(nvars - 1) |-> VScale(Frac(1, 2), VAdd(s[k], s[k + 1]))]

initial_variables(n) ==
  LET nvars == n + 1
  IN  <<Arr2(initial_states(nvars), 4), Arr2(hs_mid_states(nvars), 4),
        Arr1([k \in 1..nvars |-> Zero]), Arr1([k \in 1..(nvars - 1) |-> Zero])>>

\* the quadratic with its three terms all added
hs_control_interpolation_all_added(controls, mid_controls, dt, t) ==
  LET kstart == Floor(Div(t, dt))
      kend == Ceil(Div(t, dt))
      tstart == Mul(dt, R(kstart))
      tau == Sub(t, tstart)
      first_term ==
        Mul(Mul(Mul(Div(R(2), Sq(dt)), Sub(tau, Div(dt, R(2)))), Sub(tau, dt)),
            controls[kstart + 1])
      second_term ==
        Mul(Mul(Mul(Div(R(4), Sq(dt)), tau), Sub(tau, dt)), mid_controls[kstart + 1])
      third_term ==
        Mul(Mul(Mul(Div(R(2), Sq(dt)), tau), Sub(tau, Div(dt, R(2)))),
            controls[kend + 1])
  IN  IF kstart = kend THEN controls[kstart + 1]
      ELSE Add(Add(first_term, second_term), third_term)

\* hs_control_interpolation(controls, mid_controls, interval_duration)(t)
hs_control_interpolation(controls, mid_controls, dt, t) ==
  LET kstart == Floor(Div(t, dt))
      kend == Ceil(Div(t, dt))
      tstart == Mul(dt, R(kstart))
      tau == Sub(t, tstart)
      first_term ==
        Mul(Mul(Mul(Div(R(2), Sq(dt)), Sub(tau, Div(dt, R(2)))), Sub(tau, dt)),
            controls[kstart + 1])
      second_term ==
        Mul(Mul(Mul(Div(R(4), Sq(dt)), tau), Sub(tau, dt)), mid_controls[kstart + 1])
      third_term ==
        Mul(Mul(Mul(Div(R(2), Sq(dt)), tau), Sub(tau, Div(dt, R(2)))),
            controls[kend + 1])
  IN  IF kstart = kend THEN controls[kstart + 1]
      ELSE Add(Sub(first_term, second_term), third_term)

\* the state interpolant without the early return at a collocation point:
\* the dynamics are evaluated before the node is recognised
hs_state_interpolation_eager(states, mid_states, controls, mid_controls, dt, t) ==
  LET kstart == Floor(Div(t, dt))
      kend == Ceil(Div(t, dt))
  IN  Bind(hs_f(states[kstart + 1], controls[kstart + 1]), LAMBDA fk :
      Bind(hs_f(states[kend + 1], controls[kend + 1]), LAMBDA fk_plus_one :
        IF kstart = kend THEN [value |-> states[kstart + 1], fevals |-> 2]
        ELSE [value |-> VAdd(states[kstart + 1],
                             VScale(Sub(t, Mul(dt, R(kstart))), fk)),
              fevals |-> 2]))

\* hs_state_interpolation(...)(t): the value and the number of evaluations
\* of the dynamics f that produced it
hs_state_interpolation(states, mid_states, controls, mid_controls, dt, t) ==
  LET kstart == Floor(Div(t, dt))
      kend == Ceil(Div(t, dt))
      tstart == Mul(dt, R(kstart))
      tau == Sub(t, tstart)
  IN  IF kstart = kend THEN [value |-> states[kstart + 1], fevals |-> 0]
      ELSE
        Bind(hs_f(states[kstart + 1], controls[kstart + 1]), LAMBDA fk :
        Bind(hs_f(mid_states[kstart + 1], mid_controls[kstart + 1]), LAMBDA fk_plus_half :
        Bind(hs_f(states[kend + 1], controls[kend + 1]), LAMBDA fk_plus_one :
          LET first_term == states[kstart + 1]
              second_term == VScale(tau, fk)
              third_term ==
                VScale(Div(Sq(tau), dt),
                       VScale(Frac(1, 2),
                              VSub(VAdd(VScale(R(-3), fk), VScale(R(4), fk_plus_half)),
                                   fk_plus_one)))
              fourth_term ==
                VScale(Div(Mul(Sq(tau), tau), Sq(dt)),
                       VScale(Frac(1, 3),
                              VAdd(VSub(VScale(R(2), fk), VScale(R(4), fk_plus_half)),
                                   VScale(R(2), fk_plus_one))))
          IN  [value |-> VAdd(VAdd(VAdd(first_term, second_term), third_term), fourth_term),
               fevals |-> 3])))

(***************************** Van der Pol shooting ************************)
vdp_horizon == R(10)

step_size(n) == Div(vdp_horizon, R(n))

x0 == <<Zero, One>>
xf == <<Zero, Zero>>

\* dynamics f(x, u) of both shooting scripts
vdp_f(x, u) ==
  <<Add(Sub(Mul(Sub(One, Sq(x[2])), x[1]), x[2]), u), x[1]>>

\* instantaneous cost c(x, u)
c(x, u) == Add(Dot(x, x), Sq(u))

single_rk4_step(h, x, u) ==
  Bind(vdp_f(x, u), LAMBDA k1 :
  Bind(vdp_f(VAdd(x, VScale(Div(h, R(2)), k1)), u), LAMBDA k2 :
  Bind(vdp_f(VAdd(x, VScale(Div(h, R(2)), k2)), u), LAMBDA k3 :
  Bind(vdp_f(VAdd(x, VScale(h, k3)), u), LAMBDA k4 :
    VAdd(x, VScale(Div(h, R(6)),
                   VAdd(VAdd(VAdd(k1, VScale(R(2), k2)), VScale(R(2), k3)), k4)))))))

\* rk4_step, local to integrate_fwd: the same four stages, u held throughout
rk4_step(h, x, u) ==
  Bind(vdp_f(x, u), LAMBDA k1 :
  Bind(vdp_f(VAdd(x, VScale(Div(h, R(2)), k1)), u), LAMBDA k2 :
  Bind(vdp_f(VAdd(x, VScale(Div(h, R(2)), k2)), u), LAMBDA k3 :
  Bind(vdp_f(VAdd(x, VScale(h, k3)), u), LAMBDA k4 :
    VAdd(x, VScale(Div(h, R(6)),
                   VAdd(VAdd(VAdd(k1, VScale(R(2), k2)), VScale(R(2), k3)), k4)))))))

\* fn(carried_state, u) of integrate_fwd: the pair (carry, y)
scan_fn(h, carried_state, u) ==
  Bind(rk4_step(h, carried_state, u), LAMBDA one_step_forward :
    <<one_step_forward, one_step_forward>>)

\* lax.scan(fn, init, us): the carry is threaded through us from left to
\* right and the ys are stacked; the result is (last carry, ys)
RECURSIVE lax_scan(_, _, _)
lax_scan(h, init, us) ==
  IF us = <<>> THEN <<init, <<>>>>
  ELSE Bind(lax_scan(h, init, AllButLast(us)), LAMBDA prev :
       Bind(scan_fn(h, prev[1], us[Len(us)]), LAMBDA out :
         <<out[1], Append(prev[2], out[2])>>))

\* a forward pass in which every step starts again from x0
integrate_fwd_restarting(h, us) ==
  IF us = <<>> THEN <<x0, <<>>>>
  ELSE Bind([k \in 1..Len(us) |-> rk4_step(h, x0, us[k])], LAMBDA ys :
         <<ys[Len(us)], ys>>)

\* integrate_fwd(us) of both shooting scripts
integrate_fwd(h, us) == lax_scan(h, x0, us)

\* np.sum(vector_c(xs, us))
sum_vector_c(xs, us) ==
  LET RECURSIVE S(_)
      S(k) == IF k = 0 THEN Zero
              ELSE Bind(S(k - 1), LAMBDA acc : Add(acc, c(xs[k], us[k])))
  IN  S(Len(us))

\* objective(us) of single shooting
ss_objective(n, us) ==
  Bind(integrate_fwd(step_size(n), us), LAMBDA r :
  Bind(sum_vector_c(r[2], us), LAMBDA all_costs :
    Add(all_costs, Dot(x0, x0))))

\* equality_constraints(us) of single shooting
ss_equality_constraints(n, us) ==
  Bind(integrate_fwd(step_size(n), us), LAMBDA r : VSub(r[1], xf))

\* every segment advanced from the first segment's start
parallel_rk4_step_from_first(h, xs, us) ==
  [i \in 1..Len(xs) |-> single_rk4_step(h, xs[1], us[i])]

\* jit(vmap(single_rk4_step)): every segment advanced one step, independently
parallel_rk4_step(h, xs, us) ==
  [i \in 1..Len(xs) |-> single_rk4_step(h, xs[i], us[i])]

\* the residuals taken against each segment's own start, not the next one's
ms_equality_constraints_unshifted(n, shp, starting_xs_and_current_us) ==
  Bind(unravel(shp, starting_xs_and_current_us), LAMBDA un :
    LET starting_xs == un[1].val
        us == un[2].val
    IN  Bind(parallel_rk4_step(step_size(n), starting_xs, us), LAMBDA predicted_next_states :
          Concat([i \in 1..Len(predicted_next_states) |->
                    VSub(predicted_next_states[i], starting_xs[i])])))

ms_equality_constraints(n, shp, starting_xs_and_current_us) ==
  Bind(unravel(shp, starting_xs_and_current_us), LAMBDA un :
    LET starting_xs == un[1].val
        us == un[2].val
    IN  Bind(parallel_rk4_step(step_size(n), starting_xs, us), LAMBDA predicted_next_states :
        Bind(AllButFirst(starting_xs) \o <<xf>>, LAMBDA ending_xs :
          Concat([i \in 1..Len(predicted_next_states) |->
                    VSub(predicted_next_states[i], ending_xs[i])]))))

\* an objective that sums the costs at the segment starts
ms_objective_at_starts(n, shp, starting_xs_and_current_us) ==
  Bind(unravel(shp, starting_xs_and_current_us), LAMBDA un :
  Bind(sum_vector_c(un[1].val, un[2].val), LAMBDA all_costs :
    Add(all_costs, Dot(x0, x0))))

\* objective of multiple shooting: the starts are unravelled and dropped
ms_objective(n, shp, starting_xs_and_current_us) ==
  Bind(unravel(shp, starting_xs_and_current_us), LAMBDA un :
    LET us == un[2].val
    IN  Bind(integrate_fwd(step_size(n), us), LAMBDA r :
        Bind(sum_vector_c(r[2], us), LAMBDA all_costs :
          Add(all_costs, Dot(x0, x0)))))

\* the control rows written as [upper, lower]
control_bounds_reversed(n) == [k \in 1..n |-> <<One, Frac(-3, 4)>>]

\* control_bounds of both shooting scripts
control_bounds(n) == [k \in 1..n |-> <<Frac(-3, 4), One>>]

\* state bounds that also pin the last segment's start to xf
ms_state_bounds_pinned_end(n) ==
  LET b1 == [k \in 1..n |-> <<NegInf, Inf, NegInf, Inf>>]
      b2 == [b1 EXCEPT ![1] = <<x0[1], x0[1], x0[2], x0[2]>>]
      b3 == [b2 EXCEPT ![n] = <<xf[1], xf[1], xf[2], xf[2]>>]
  IN  ReshapeRows(Concat(b3), 2)

\* state_bounds of multiple shooting, lines 57-66
ms_state_bounds(n) ==
  LET b1 == [k \in 1..n |-> <<NegInf, Inf, NegInf, Inf>>]
      b2 == [b1 EXCEPT ![1] = <<x0[1], x0[1], x0[2], x0[2]>>]
  IN  ReshapeRows(Concat(b2), 2)

all_bounds(n) == ms_state_bounds(n) \o control_bounds(n)

\* starting_xs: x0 stacked on the drawn middle_xs
starting_xs_of(middle_xs) == <<x0>> \o middle_xs

(***************************** systems and configuration *******************)
NoneVal == [none |-> TRUE]

AssertionError == [type |-> "AssertionError", args |-> <<>>]

\* __post_init__ without the assert on the shape of bounds
post_init_bounds_unchecked(x_0, x_T, T, bounds) ==
  IF x_T # NoneVal /\ Shape(x_0) # Shape(x_T) THEN AssertionError
  ELSE IF ~(T > 0) THEN AssertionError
  ELSE NoneVal

\* FiniteHorizonControlSystem.__post_init__: the first failing assert, or
\* NoneVal when all three pass
post_init(x_0, x_T, T, bounds) ==
  IF x_T # NoneVal /\ Shape(x_0) # Shape(x_T) THEN AssertionError
  ELSE IF Shape(bounds) # <<Shape(x_0)[1] + 1, 2>> THEN AssertionError
  ELSE IF ~(T > 0) THEN AssertionError
  ELSE NoneVal

\* the dataclass constructor: fields assigned, then __post_init__
FiniteHorizonControlSystem(cls, x_0, x_T, T, bounds) ==
  LET err == post_init(x_0, x_T, T, bounds)
  IN  IF err = NoneVal
      THEN [ok |-> TRUE,
            obj |-> [class |-> cls, x_0 |-> x_0, x_T |-> x_T, T |-> T, bounds |-> bounds]]
      ELSE [ok |-> FALSE, error |-> err]

NanRow == <<NaN, NaN>>

CartPole ==
  FiniteHorizonControlSystem("CartPole",
    Arr1(<<Zero, Zero, Zero, Zero>>), Arr1(<<One, Pi, Zero, Zero>>), 2,
    Arr2(<<<<R(-2), R(2)>>, <<Mul(R(-2), Pi), Mul(R(2), Pi)>>, NanRow, NanRow,
           <<R(-20), R(20)>>>>, 2))

VanDerPol ==
  FiniteHorizonControlSystem("VanDerPol",
    Arr1(<<Zero, One>>), Arr1(<<Zero, Zero>>), 10,
    Arr2(<<NanRow, NanRow, <<Frac(-3, 4), One>>>>, 2))

SEIR ==
  FiniteHorizonControlSystem("SEIR",
    Arr1(<<R(1000), R(100), R(50), R(1165)>>), NoneVal, 20,
    Arr2(<<NanRow, NanRow, NanRow, NanRow, <<Zero, One>>>>, 2))

\* HParams as config.py declares it
HParams(sys) ==
  [seed |-> 2020, system |-> sys, optimizer |-> "SHOOTING", nlpsolver |-> "IPOPT",
   order |-> "QUADRATIC", ipopt_max_iter |-> 10000, intervals |-> 10,
   controls_per_interval |-> 2, steps |-> 1000]

\* get_system(hp): hp.dynamics is read first
get_system(hp) ==
  IF "dynamics" \notin DOMAIN hp
  THEN [ok |-> FALSE, error |-> [type |-> "AttributeError", args |-> <<"dynamics">>]]
  ELSE IF hp.dynamics = "CARTPOLE" THEN CartPole
  ELSE IF hp.dynamics = "VANDERPOL" THEN VanDerPol
  ELSE IF hp.dynamics = "SEIR" THEN SEIR
  ELSE [ok |-> FALSE, error |-> [type |-> "KeyError", args |-> <<>>]]

(***************************** sampled inputs ******************************)
Scripts == {"hs", "ms", "ss", "sys"}

InBounds(x, b) ==
  /\ Len(x) = Len(b)
  /\ \A i \in 1..Len(x) : LE(b[i][1], x[i]) /\ LE(x[i], b[i][2])

\* node and midpoint states a solver iterate is drawn from
NodeSamples ==
  {<<Zero, Zero, Zero, Zero>>, <<dist, Pi, Zero, Zero>>,
   <<Frac(-1, 2), Div(Pi, R(2)), One, R(-1)>>}

MidSamples ==
  {<<Zero, Zero, Zero, Zero>>, <<Frac(1, 4), Zero, R(3), One>>}

\* a rising and a constant control profile; midpoint profiles, the second of
\* which starts at minus half the constant control
ControlProfiles(n) ==
  {[k \in 1..n |-> R(k)], [k \in 1..n |-> R(4)]}

MidControlProfiles(n) ==
  {[k \in 1..n |-> R(10 + k)], [k \in 1..n |-> R(-1 - k)]}

HSCandidates(n) ==
  {ravel_pytree(<<Arr2(st, 4), Arr2(mi, 4), Arr1(co), Arr1(mco)>>)[1] :
     st \in [1..(n + 1) -> NodeSamples], mi \in [1..n -> MidSamples],
     co \in ControlProfiles(n + 1), mco \in MidControlProfiles(n)}

\* (segment start state, control) pairs a multiple-shooting iterate is drawn
\* from
SegSamples ==
  {<<<<Zero, Zero>>, Zero>>, <<<<Zero, One>>, Zero>>, <<<<Zero, One>>, One>>,
   <<<<Zero, One>>, Frac(1, 2)>>}

\* with five segments (step size 2): x0 held or left, and the state
\* (-4/3, -1) that one step with control 0 reaches from x0
SegSamplesAt(n) ==
  IF n = 5
  THEN {<<<<Zero, One>>, One>>, <<<<Zero, One>>, Zero>>,
        <<<<Frac(-4, 3), R(-1)>>, Zero>>, <<<<Frac(-4, 3), R(-1)>>, One>>}
  ELSE SegSamples

MSCandidates(n) ==
  {ravel_pytree(<<Arr2([i \in 1..n |-> sg[i][1]], 2), Arr1([i \in 1..n |-> sg[i][2]])>>)[1] :
     sg \in [1..n -> SegSamplesAt(n)]}

\* control sequences at which the solver calls the shooting functions, kept
\* to rollouts whose exact values stay within the integers of the model
\* checker: the control 1 holds the state at x0, a final control leaves it,
\* and with five intervals (step size 2) two consecutive steps leave it
Hold(n) == [k \in 1..n |-> One]

KickValues(n) ==
  CASE n = 1 -> {Frac(9, 10)}
    [] n = 2 -> {Frac(3, 5), Frac(4, 5)}
    [] n = 3 -> {Frac(2, 5), Frac(7, 10)}
    [] n = 5 -> {Zero, Frac(1, 2)}
    [] OTHER -> {}

ObjectiveControls(n) ==
  {Hold(n)} \cup {[Hold(n) EXCEPT ![n] = a] : a \in KickValues(n)}

RolloutControls(n) ==
  ObjectiveControls(n)
  \cup (IF n = 5 THEN {<<One, One, One, Zero, b>> : b \in {Zero, One}} ELSE {})

\* draws of jax.random.uniform: [0, 0.5) for middle_xs, [-0.76, 0.9) for
\* the controls
MiddleDraws == {<<Zero, Frac(1, 4)>>, <<Frac(49, 100), Zero>>}
ControlDraws == {Frac(-19, 25), Frac(1, 2)}

ShapeSamples == {<<2>>, <<4>>}
Zeros(shape) == Arr1([i \in 1..shape[1] |-> Zero])
Table(rows, cols) == Arr2([r \in 1..rows |-> [j \in 1..cols |-> NaN]], cols)
TableSamples == {Table(r, 2) : r \in 2..5} \cup {Table(3, 3), Table(5, 1)}
DurationSamples == {0, 2}
TypeSamples == {"CARTPOLE", "VANDERPOL", "SEIR", "FISHHARVEST"}
HpSamples ==
  {HParams(ty) : ty \in TypeSamples} \cup {[dynamics |-> ty] : ty \in TypeSamples}

\* random sequences of length m over the draws S: every sequence when m is
\* small, the constant ones otherwise
DrawSequences(m, S) ==
  IF m <= MaxIntervals THEN [1..m -> S] ELSE {[k \in 1..m |-> v] : v \in S}

\* multiple-shooting iterates at which the objective is called: the same
\* controls under different segment starts
MSObjectiveIterates(n) ==
  {ravel_pytree(<<Arr2(<<x0>> \o [k \in 1..(n - 1) |-> m], 2), Arr1(us)>>)[1] :
     m \in MiddleDraws \cup {x0}, us \in ObjectiveControls(n)}

\* numbers of control intervals of the shooting scripts: five intervals give
\* the step size 2
ShootingIntervals == (1..MaxIntervals) \cup {5}

\* time_dense = np.linspace(0, horizon, 201): 2*QueryRefine points per
\* interval, so that every node and every midpoint is among them
LastQuery(n) == 2 * QueryRefine * n
time_dense(n, j) == Div(Mul(R(j), hs_horizon), R(LastQuery(n)))

(***************************** the scripts as a state machine **************)
Init ==
  /\ script \in Scripts
  /\ pc = "start"
  /\ nintervals \in IF script = "sys" THEN {0}
                    ELSE IF script = "hs" THEN 1..MaxIntervals
                    ELSE ShootingIntervals
  /\ guess = <<>>
  /\ shapes = <<>>
  /\ x0flat = <<>>
  /\ bnds = <<>>
  /\ sol = <<>>
  /\ eqc = <<>>
  /\ query = NoneVal
  /\ system = NoneVal
  /\ icv = <<>>
  /\ rollout = <<>>
  /\ objv = NoneVal

\* hs lines 231-254
HSInitialVariables ==
  /\ script = "hs" /\ pc = "start"
  /\ guess' = initial_variables(nintervals)
  /\ pc' = "guessed"
  /\ UNCHANGED <<script, nintervals, shapes, x0flat, bnds, sol, eqc, query, system, icv, rollout, objv>>

\* hs line 257
HSRavel ==
  /\ script = "hs" /\ pc = "guessed"
  /\ x0flat' = ravel_pytree(guess)[1]
  /\ shapes' = ravel_pytree(guess)[2]
  /\ pc' = "raveled"
  /\ UNCHANGED <<script, nintervals, guess, bnds, sol, eqc, query, system, icv, rollout, objv>>

\* hs line 263
HSMakeNlp ==
  /\ script = "hs" /\ pc = "raveled"
  /\ bnds' = hs_bounds(nintervals)
  /\ pc' = "nlp"
  /\ UNCHANGED <<script, nintervals, guess, shapes, x0flat, sol, eqc, query, system, icv, rollout, objv>>

\* hs lines 292-301: SLSQP returns a vector inside the bounds table, both
\* groups of equality constraints evaluated at it
HSMinimize ==
  /\ script = "hs" /\ pc = "nlp"
  /\ \E x \in {y \in HSCandidates(nintervals) : InBounds(y, bnds)} :
       /\ sol' = x
       /\ eqc' = hs_equality_constraints(hs_horizon, nintervals, shapes, x)
       /\ icv' = hs_interpolation_constraints(hs_horizon, nintervals, shapes, x)
  /\ pc' = "solved"
  /\ UNCHANGED <<script, nintervals, guess, shapes, x0flat, bnds, query, system, rollout, objv>>

\* hs lines 341, 345: quadratic_control(t) for the next t of time_dense
HSQueryControl ==
  /\ script = "hs" /\ pc = "solved"
  /\ IF query = NoneVal THEN TRUE
     ELSE query.fn = "u" /\ query.j < LastQuery(nintervals)
  /\ LET j == IF query = NoneVal THEN 0 ELSE query.j + 1
         t == time_dense(nintervals, j)
         opt == unravel(shapes, sol)
     IN  query' = [fn |-> "u", j |-> j, t |-> t,
                   value |-> hs_control_interpolation(opt[3].val, opt[4].val,
                               interval_duration(hs_horizon, nintervals), t)]
  /\ UNCHANGED <<script, pc, nintervals, guess, shapes, x0flat, bnds, sol, eqc, system, icv, rollout, objv>>

\* hs lines 342, 346: cubic_state(t) for the next t of time_dense
HSQueryState ==
  /\ script = "hs" /\ pc = "solved"
  /\ IF query = NoneVal THEN FALSE
     ELSE IF query.fn = "u" THEN query.j = LastQuery(nintervals)
     ELSE query.j < LastQuery(nintervals)
  /\ LET j == IF query.fn = "u" THEN 0 ELSE query.j + 1
         t == time_dense(nintervals, j)
         opt == unravel(shapes, sol)
         r == hs_state_interpolation(opt[1].val, opt[2].val, opt[3].val, opt[4].val,
                                     interval_duration(hs_horizon, nintervals), t)
     IN  query' = [fn |-> "x", j |-> j, t |-> t, value |-> r.value, fevals |-> r.fevals]
  /\ UNCHANGED <<script, pc, nintervals, guess, shapes, x0flat, bnds, sol, eqc, system, icv, rollout, objv>>

\* ms lines 33-41
MSDraw ==
  /\ script = "ms" /\ pc = "start"
  /\ \E middle_xs \in DrawSequences(nintervals - 1, MiddleDraws),
        initial_controls_guess \in DrawSequences(nintervals, ControlDraws) :
       guess' = <<Arr2(starting_xs_of(middle_xs), 2), Arr1(initial_controls_guess)>>
  /\ pc' = "guessed"
  /\ UNCHANGED <<script, nintervals, shapes, x0flat, bnds, sol, eqc, query, system, icv, rollout, objv>>

\* ms line 43
MSRavel ==
  /\ script = "ms" /\ pc = "guessed"
  /\ x0flat' = ravel_pytree(guess)[1]
  /\ shapes' = ravel_pytree(guess)[2]
  /\ pc' = "raveled"
  /\ UNCHANGED <<script, nintervals, guess, bnds, sol, eqc, query, system, icv, rollout, objv>>

\* ms lines 52-68
MSBounds ==
  /\ script = "ms" /\ pc = "raveled"
  /\ bnds' = all_bounds(nintervals)
  /\ pc' = "nlp"
  /\ UNCHANGED <<script, nintervals, guess, shapes, x0flat, sol, eqc, query, system, icv, rollout, objv>>

\* ms lines 137-143
MSMinimize ==
  /\ script = "ms" /\ pc = "nlp"
  /\ \E x \in {y \in MSCandidates(nintervals) : InBounds(y, bnds)} :
       /\ sol' = x
       /\ eqc' = ms_equality_constraints(nintervals, shapes, x)
  /\ pc' = "solved"
  /\ UNCHANGED <<script, nintervals, guess, shapes, x0flat, bnds, query, system, icv, rollout, objv>>

\* ms lines 115-120, called by minimize (lines 137-143) at an iterate inside
\* the bounds
MSEvalObjective ==
  /\ script = "ms" /\ pc = "nlp"
  /\ \E x \in {y \in MSObjectiveIterates(nintervals) : InBounds(y, bnds)} :
       /\ sol' = x
       /\ objv' = ms_objective(nintervals, shapes, x)
  /\ pc' = "objective"
  /\ UNCHANGED <<script, nintervals, guess, shapes, x0flat, bnds, eqc, query, system, icv, rollout>>

\* ss lines 26-27
SSBounds ==
  /\ script = "ss" /\ pc = "start"
  /\ bnds' = control_bounds(nintervals)
  /\ pc' = "nlp"
  /\ UNCHANGED <<script, nintervals, guess, shapes, x0flat, sol, eqc, query, system, icv, rollout, objv>>

\* ss line 79
SSDraw ==
  /\ script = "ss" /\ pc = "nlp"
  /\ \E initial_controls_guess \in DrawSequences(nintervals, ControlDraws) :
       /\ guess' = <<Arr1(initial_controls_guess)>>
       /\ x0flat' = initial_controls_guess
  /\ pc' = "guessed"
  /\ UNCHANGED <<script, nintervals, shapes, bnds, sol, eqc, query, system, icv, rollout, objv>>

\* ss lines 72-75, called by minimize (lines 88-94) at an iterate inside the
\* bounds: the forward pass and the terminal residual
SSEvalConstraints ==
  /\ script = "ss" /\ pc = "guessed"
  /\ \E us \in {y \in RolloutControls(nintervals) : InBounds(y, bnds)} :
       /\ sol' = us
       /\ rollout' = integrate_fwd(step_size(nintervals), us)
       /\ eqc' = ss_equality_constraints(nintervals, us)
  /\ pc' = "constraints"
  /\ UNCHANGED <<script, nintervals, guess, shapes, x0flat, bnds, query, system, icv, objv>>

\* ss lines 65-69, called by minimize at an iterate inside the bounds
SSEvalObjective ==
  /\ script = "ss" /\ pc = "guessed"
  /\ \E us \in {y \in ObjectiveControls(nintervals) : InBounds(y, bnds)} :
       /\ sol' = us
       /\ objv' = ss_objective(nintervals, us)
  /\ pc' = "objective"
  /\ UNCHANGED <<script, nintervals, guess, shapes, x0flat, bnds, eqc, query, system, icv, rollout>>

\* a system is constructed from caller-supplied fields
SysConstruct ==
  /\ script = "sys" /\ pc = "start"
  /\ \E s0 \in ShapeSamples, sT \in ShapeSamples \cup {<<>>},
        b \in TableSamples, T \in DurationSamples :
       /\ system' = FiniteHorizonControlSystem("FiniteHorizonControlSystem",
                      Zeros(s0), IF sT = <<>> THEN NoneVal ELSE Zeros(sT), T, b)
       /\ query' = [fn |-> "construct", x_0 |-> Zeros(s0),
                    x_T |-> IF sT = <<>> THEN NoneVal ELSE Zeros(sT),
                    T |-> T, bounds |-> b]
  /\ pc' = "done"
  /\ UNCHANGED <<script, nintervals, guess, shapes, x0flat, bnds, sol, eqc, icv, rollout, objv>>

\* get_system(hp)
SysGetSystem ==
  /\ script = "sys" /\ pc = "start"
  /\ \E hp \in HpSamples :
       /\ system' = get_system(hp)
       /\ query' = [fn |-> "get_system", hp |-> hp]
  /\ pc' = "done"
  /\ UNCHANGED <<script, nintervals, guess, shapes, x0flat, bnds, sol, eqc, icv, rollout, objv>>

Next ==
  \/ HSInitialVariables \/ HSRavel \/ HSMakeNlp \/ HSMinimize
  \/ HSQueryControl \/ HSQueryState
  \/ MSDraw \/ MSRavel \/ MSBounds \/ MSMinimize \/ MSEvalObjective
  \/ SSBounds \/ SSDraw \/ SSEvalConstraints \/ SSEvalObjective
  \/ SysConstruct \/ SysGetSystem

Spec == Init /\ [][Next]_vars

(***************************** properties **********************************)
\* number of scalars held by a tuple of arrays, counted leaf by leaf
ElementCount(tree) ==
  LET RECURSIVE Cnt(_)
      Cnt(i) ==
        IF i = 0 THEN 0
        ELSE Cnt(i - 1)
             + (IF tree[i].ndim = 1 THEN Len(tree[i].val)
                ELSE Len(tree[i].val) * tree[i].ncols)
  IN  Cnt(Len(tree))

\* C1: once a script has flattened its structured tuple (collocation: states,
\* mid_states, controls, mid_controls; multiple shooting: segment starts and
\* controls), applying the returned unflatten function to the flat vector
\* gives the tuple back, same shapes and same values at the same positions,
\* and the flat vector has exactly as many elements as the tuple.
C1_RoundTrip ==
  (script \in {"hs", "ms"} /\ pc \in {"raveled", "nlp", "solved"}) =>
    /\ unravel(shapes, x0flat) = guess
    /\ [i \in 1..Len(guess) |-> Shape(unravel(shapes, x0flat)[i])]
         = [i \in 1..Len(guess) |-> Shape(guess[i])]
    /\ Len(x0flat) = ElementCount(guess)

\* a collocation tuple for two intervals has been flattened to 25 numbers
\* whose ninth (node 2, dimension 1 of the linear guess) is dist
C1_Witness ==
  /\ script = "hs" /\ pc = "raveled" /\ nintervals = 2
  /\ Len(x0flat) = 25
  /\ x0flat[9] = dist
  /\ unravel(shapes, x0flat) = guess

\* the flat position of every element of the structured tuple, as the
\* unflatten function lays the flat vector out
IndexTree == unravel(shapes, [i \in 1..Len(x0flat) |-> i])

\* C2: the bounds table handed to the solver has one row per decision
\* variable and row i bounds the variable stored at flat index i.  In
\* collocation the flat vector holds the node states (node-major, then state
\* dimension), then the midpoint states, the node controls and the midpoint
\* controls, and the rows are the entries of the four bounds tables in that
\* order; in multiple shooting the segment-start states are followed by the
\* controls, and so are the rows.
C2_RowPerVariable ==
  /\ (script = "hs" /\ pc \in {"nlp", "solved"}) =>
       LET nvars == nintervals + 1
           at == IndexTree
           sb == hs_state_bounds(nvars)
           mb == hs_mid_state_bounds(nvars)
       IN  /\ Len(bnds) = Len(x0flat)
           /\ \A k \in 1..nvars, d \in 1..4 :
                /\ at[1].val[k][d] = 4 * (k - 1) + d
                /\ bnds[at[1].val[k][d]] = <<sb[k][2 * d - 1], sb[k][2 * d]>>
           /\ \A k \in 1..(nvars - 1), d \in 1..4 :
                /\ at[2].val[k][d] = 4 * nvars + 4 * (k - 1) + d
                /\ bnds[at[2].val[k][d]] = <<mb[k][2 * d - 1], mb[k][2 * d]>>
           /\ \A k \in 1..nvars :
                /\ at[3].val[k] = 4 * nvars + 4 * (nvars - 1) + k
                /\ bnds[at[3].val[k]] = hs_control_bounds(nvars)[k]
           /\ \A k \in 1..(nvars - 1) :
                /\ at[4].val[k] = 4 * nvars + 4 * (nvars - 1) + nvars + k
                /\ bnds[at[4].val[k]] = hs_mid_control_bounds(nvars)[k]
  /\ (script = "ms" /\ pc \in {"nlp", "solved"}) =>
       LET at == IndexTree
       IN  /\ Len(bnds) = Len(x0flat)
           /\ \A i \in 1..nintervals, d \in 1..2 :
                /\ at[1].val[i][d] = 2 * (i - 1) + d
                /\ bnds[at[1].val[i][d]]
                     = IF i = 1 THEN <<x0[d], x0[d]>> ELSE <<NegInf, Inf>>
           /\ \A i \in 1..nintervals :
                /\ at[2].val[i] = 2 * nintervals + i
                /\ bnds[at[2].val[i]] = <<Frac(-3, 4), One>>

\* the collocation table for two intervals: 25 rows, row 9 the pinned first
\* dimension of the last node, row 13 the raw first dimension of midpoint 0
C2_Witness ==
  /\ script = "hs" /\ pc = "nlp" /\ nintervals = 2
  /\ Len(bnds) = 25 /\ Len(x0flat) = 25
  /\ bnds[9] = <<dist, dist>>
  /\ bnds[13] = <<Frac(-8, 5), Frac(8, 5)>>
  /\ bnds[25] = <<R(-100), R(100)>>

\* C3: in every bounds table built for the solver (collocation, multiple
\* shooting, single shooting) every row has lower <= upper, and an infinite
\* entry occurs only in a row that is exactly (-infinity, +infinity).
C3_RowsOrdered ==
  (script \in {"hs", "ms", "ss"} /\ bnds # <<>>) =>
    \A i \in 1..Len(bnds) :
      /\ Len(bnds[i]) = 2
      /\ LE(bnds[i][1], bnds[i][2])
      /\ (bnds[i][1][2] = 0 \/ bnds[i][2][2] = 0) => bnds[i] = <<NegInf, Inf>>

\* the multiple-shooting table for two segments: a pinned row, an
\* unconstrained row and a control row
C3_Witness ==
  /\ script = "ms" /\ pc = "nlp" /\ nintervals = 2
  /\ bnds[2] = <<One, One>>
  /\ bnds[3] = <<NegInf, Inf>>
  /\ bnds[5] = <<Frac(-3, 4), One>>

\* C4: in the cart-pole collocation table the rows of the first node are
\* (x_0[d], x_0[d]) and the rows of the last node are (x_T[d], x_T[d]), x_0
\* and x_T being the first and last state of the linear guess; the rows of
\* every interior node and of every midpoint are the raw per-dimension
\* bounds; hence every vector inside the table, the solver's result among
\* them, has first node state x_0 and last node state x_T.
C4_EndpointsPinned ==
  (script = "hs" /\ pc \in {"nlp", "solved"}) =>
    LET nvars == nintervals + 1
        x_0 == initial_states(nvars)[1]
        x_T == initial_states(nvars)[nvars]
        raw(d) == <<hs_raw_row[2 * d - 1], hs_raw_row[2 * d]>>
        first(y) == SubSeq(y, 1, 4)
        last(y) == SubSeq(y, 4 * (nvars - 1) + 1, 4 * nvars)
    IN  /\ \A d \in 1..4 :
             /\ bnds[d] = <<x_0[d], x_0[d]>>
             /\ bnds[4 * (nvars - 1) + d] = <<x_T[d], x_T[d]>>
             /\ \A k \in 2..(nvars - 1) : bnds[4 * (k - 1) + d] = raw(d)
             /\ \A k \in 1..(nvars - 1) : bnds[4 * nvars + 4 * (k - 1) + d] = raw(d)
        /\ pc = "nlp" =>
             \A y \in HSCandidates(nintervals) :
               InBounds(y, bnds) => first(y) = x_0 /\ last(y) = x_T
        /\ pc = "solved" => first(sol) = x_0 /\ last(sol) = x_T

\* a solver result for two intervals whose last node sits on the target and
\* whose interior node is away from both ends
C4_Witness ==
  /\ script = "hs" /\ pc = "solved" /\ nintervals = 2
  /\ SubSeq(sol, 9, 12) = <<dist, Pi, Zero, Zero>>
  /\ SubSeq(sol, 5, 8) = <<Frac(-1, 2), Div(Pi, R(2)), One, R(-1)>>
  /\ bnds[9] = <<dist, dist>> /\ bnds[10] = <<Pi, Pi>>
  /\ bnds[5] = <<Frac(-8, 5), Frac(8, 5)>>

\* the arrays of the solver's result, read off the flat vector by position
OptState(k) == SubSeq(sol, 4 * k + 1, 4 * k + 4)
OptMidState(k) == SubSeq(sol, 4 * (nintervals + 1) + 4 * k + 1, 4 * (nintervals + 1) + 4 * k + 4)
OptControl(k) == sol[8 * nintervals + 4 + k + 1]
OptMidControl(k) == sol[9 * nintervals + 5 + k + 1]

SegStart(i) == <<sol[2 * i + 1], sol[2 * i + 2]>>
SegControl(i) == sol[2 * nintervals + i + 1]
SegEnd(i) == single_rk4_step(Div(vdp_horizon, R(nintervals)), SegStart(i), SegControl(i))
SegTarget(i) == IF i < nintervals - 1 THEN SegStart(i + 1) ELSE xf

\* C7: with N segments the multiple-shooting equality_constraints returns
\* 2*N residuals; block i is step(start_i, u_i) - start_{i+1} for i < N-1 and
\* step(start_{N-1}, u_{N-1}) - x_T for the last segment; a block is zero
\* exactly when the segment's propagated end state equals its target, so the
\* vector is all zero exactly when every segment meets the next start and
\* the last one meets x_T.
C7_ContinuityResiduals ==
  (script = "ms" /\ pc = "solved") =>
    /\ Len(eqc) = nintervals * 2
    /\ \A i \in 0..(nintervals - 1) :
         /\ \A d \in 1..2 : eqc[2 * i + d] = Sub(SegEnd(i)[d], SegTarget(i)[d])
         /\ (\A d \in 1..2 : eqc[2 * i + d] = Zero) <=> (SegEnd(i) = SegTarget(i))
    /\ (\A j \in 1..Len(eqc) : eqc[j] = Zero)
         <=> (\A i \in 0..(nintervals - 1) : SegEnd(i) = SegTarget(i))

\* two segments: the first leaves x0 and misses the second start, the second
\* rests at the origin and meets x_T, so its block is zero
C7_Witness ==
  /\ script = "ms" /\ pc = "solved" /\ nintervals = 2
  /\ SegStart(0) = x0 /\ SegStart(1) = <<Zero, Zero>> /\ SegControl(1) = Zero
  /\ SegEnd(1) = xf
  /\ eqc[3] = Zero /\ eqc[4] = Zero
  /\ SegEnd(0) # SegStart(1)
  /\ <<eqc[1], eqc[2]>> # <<Zero, Zero>>

\* C8: constructing a system raises the precondition violation and yields
\* no object whenever x_T is given with a shape other than x_0's, or bounds
\* does not have shape (n_x + n_u, 2), n_u being the single control of every
\* system; a system object is produced only when both checks pass.
C8_ConstructionChecks ==
  (script = "sys" /\ pc = "done" /\ query.fn = "construct") =>
    LET n_x == Len(query.x_0.val)
        n_u == 1
        shape_mismatch ==
          query.x_T # NoneVal /\ Len(query.x_T.val) # n_x
        bounds_mismatch ==
          Len(query.bounds.val) # n_x + n_u \/ query.bounds.ncols # 2
    IN  /\ (shape_mismatch \/ bounds_mismatch) =>
             /\ ~system.ok
             /\ system.error.type = "AssertionError"
             /\ "obj" \notin DOMAIN system
        /\ system.ok => ~shape_mismatch /\ ~bounds_mismatch

\* a two-state system given a five-row bounds table and no x_T is refused
C8_Witness ==
  /\ script = "sys" /\ pc = "done" /\ query.fn = "construct"
  /\ Len(query.x_0.val) = 2 /\ query.x_T = NoneVal /\ query.T = 2
  /\ Len(query.bounds.val) = 5
  /\ ~system.ok

\* C10: with N intervals the collocation equality_constraints returns 4*N
\* numbers; entry 4*k + d is component d of
\*   state_{k+1} - state_k - (dt/6)*(f(state_k, control_k)
\*     + 4*f(mid_state_k, mid_control_k) + f(state_{k+1}, control_{k+1}))
\* taken at node k, midpoint k and node k+1 of the unflattened vector, with
\* dt = horizon / N.
C10_DefectVector ==
  (script = "hs" /\ pc = "solved") =>
    LET dt == Div(hs_horizon, R(nintervals))
        fk(k) == hs_f(OptState(k), OptControl(k))
        fmid(k) == hs_f(OptMidState(k), OptMidControl(k))
        simpson(k, d) ==
          Mul(Div(dt, R(6)),
              Add(Add(fk(k)[d], Mul(R(4), fmid(k)[d])), fk(k + 1)[d]))
    IN  /\ Len(eqc) = nintervals * 4
        /\ \A k \in 0..(nintervals - 1), d \in 1..4 :
             eqc[4 * k + d]
               = Sub(Sub(OptState(k + 1)[d], OptState(k)[d]), simpson(k, d))

\* two intervals with the interior node off the line between the ends and a
\* non-zero defect in the second interval
C10_Witness ==
  /\ script = "hs" /\ pc = "solved" /\ nintervals = 2
  /\ Len(eqc) = 8
  /\ OptState(1) = <<Frac(-1, 2), Div(Pi, R(2)), One, R(-1)>>
  /\ OptMidState(1) = <<Frac(1, 4), Zero, R(3), One>>
  /\ eqc[5] # Zero /\ eqc[7] # Zero

\* the type a caller asks get_system for: the system field HParams declares,
\* or the dynamics attribute of an object that has one
RequestedType(hp) == IF "system" \in DOMAIN hp THEN hp.system ELSE hp.dynamics

ClassOfType(ty) ==
  CASE ty = "CARTPOLE" -> "CartPole"
    [] ty = "VANDERPOL" -> "VanDerPol"
    [] ty = "SEIR" -> "SEIR"

\* C9: get_system returns a CartPole, VanDerPol or SEIR system when that
\* type is requested, and for any other requested type it fails with a
\* lookup error (KeyError) whose arguments name the requested type.
C9_GetSystemContract ==
  (script = "sys" /\ pc = "done" /\ query.fn = "get_system") =>
    LET ty == RequestedType(query.hp)
    IN  IF ty \in {"CARTPOLE", "VANDERPOL", "SEIR"}
        THEN system.ok /\ system.obj.class = ClassOfType(ty)
        ELSE /\ ~system.ok
             /\ system.error.type = "KeyError"
             /\ \E j \in 1..Len(system.error.args) : system.error.args[j] = ty

\* C11: on every interval k whose defect residual and interpolation residual
\* are both zero at the solver's result, the cubic of hs_state_interpolation
\* evaluated at the interval's midpoint, tau = dt/2, equals mid_state_k.
C11_CubicMeetsMidpoint ==
  (script = "hs" /\ pc = "solved" /\ query # NoneVal) =>
    (query.fn = "x" =>
       LET dt == Div(hs_horizon, R(nintervals))
       IN  \A k \in 0..(nintervals - 1) :
             ( /\ query.t = Add(Mul(R(k), dt), Div(dt, R(2)))
               /\ \A d \in 1..4 : eqc[4 * k + d] = Zero
               /\ \A d \in 1..4 : icv[4 * k + d] = Zero )
             => query.value = OptMidState(k))

\* interval 0 of two: the cart is held at rest by a control of 4 at both nodes
\* and -2 at the midpoint, so the dynamics are non-zero at all three points,
\* both residuals vanish, and the cubic is queried at the midpoint
C11_Witness ==
  /\ script = "hs" /\ pc = "solved" /\ nintervals = 2 /\ query # NoneVal
  /\ query.fn = "x" /\ query.t = Frac(1, 2) /\ query.fevals = 3
  /\ OptControl(0) = R(4) /\ OptMidControl(0) = R(-2) /\ OptControl(1) = R(4)
  /\ hs_f(OptState(0), OptControl(0)) = <<Zero, Zero, R(2), R(-4)>>
  /\ SubSeq(eqc, 1, 4) = <<Zero, Zero, Zero, Zero>>
  /\ SubSeq(icv, 1, 4) = <<Zero, Zero, Zero, Zero>>
  /\ query.value = OptMidState(0)

\* C12: integrate_fwd applied to the controls u_0..u_{N-1} returns N states
\* y_0..y_{N-1} with y_0 the RK4 step of x0 under u_0 and y_k the RK4 step of
\* y_{k-1} under u_k, one control per step and the same in all four stages
\* (as in single_rk4_step), and the returned final state is y_{N-1}.
C12_SequentialScan ==
  (script = "ss" /\ pc = "constraints") =>
    LET h == Div(vdp_horizon, R(nintervals))
        ys == rollout[2]
    IN  /\ Len(rollout) = 2
        /\ Len(ys) = nintervals
        /\ ys[1] = single_rk4_step(h, x0, sol[1])
        /\ \A k \in 2..nintervals : ys[k] = single_rk4_step(h, ys[k - 1], sol[k])
        /\ rollout[1] = ys[nintervals]

\* five intervals: three steps hold x0, the fourth leaves it for (-4/3, -1)
\* and the fifth starts from there
C12_Witness ==
  /\ script = "ss" /\ pc = "constraints" /\ nintervals = 5
  /\ sol = <<One, One, One, Zero, One>>
  /\ rollout[2][3] = x0
  /\ rollout[2][4] = <<Frac(-4, 3), R(-1)>>
  /\ rollout[2][5] # x0 /\ rollout[2][5] # rollout[2][4]
  /\ rollout[1] = rollout[2][5]

\* C13: in the multiple-shooting bounds table the rows of the first
\* segment's start are (x0[d], x0[d]) and they are the only state rows with
\* lower = upper; the start rows of every other segment are
\* (-infinity, +infinity), so no row holds x_T; x_T enters through the last
\* block of the equality constraints, step(start_{N-1}, u_{N-1}) - x_T.
C13_OnlyFirstStartPinned ==
  (script = "ms" /\ pc \in {"nlp", "solved", "objective"}) =>
    /\ \A d \in 1..2 : bnds[d] = <<x0[d], x0[d]>>
    /\ \A j \in 3..(2 * nintervals) : bnds[j] = <<NegInf, Inf>>
    /\ \A j \in 1..(2 * nintervals) : bnds[j][1] = bnds[j][2] => j <= 2
    /\ pc = "solved" =>
         \A d \in 1..2 :
           eqc[2 * (nintervals - 1) + d] = Sub(SegEnd(nintervals - 1)[d], xf[d])

\* five segments: a result inside the table whose last segment starts away
\* from both x0 and x_T and ends away from x_T, which only the last residual
\* block records
C13_Witness ==
  /\ script = "ms" /\ pc = "solved" /\ nintervals = 5
  /\ bnds[1] = <<Zero, Zero>> /\ bnds[2] = <<One, One>>
  /\ \A j \in 3..10 : bnds[j] = <<NegInf, Inf>>
  /\ SegStart(0) = x0
  /\ SegStart(4) = <<Frac(-4, 3), R(-1)>>
  /\ SegEnd(4) # xf
  /\ <<eqc[9], eqc[10]>> = VSub(SegEnd(4), xf)
  /\ <<eqc[9], eqc[10]>> # <<Zero, Zero>>

\* C14: the initial guess vector handed to minimize lies inside the bounds
\* table handed over in the same call, row by row, for the linear
\* interpolation of the collocation script and for every draw of the two
\* shooting scripts.
C14_GuessWithinBounds ==
  ( \/ script = "hs" /\ pc \in {"nlp", "solved"}
    \/ script = "ms" /\ pc \in {"nlp", "solved", "objective"}
    \/ script = "ss" /\ pc \in {"guessed", "constraints", "objective"} )
  => InBounds(x0flat, bnds)

\* the controls of the flat multiple-shooting vector v
ControlsOf(v) == SubSeq(v, 2 * nintervals + 1, 3 * nintervals)

\* y_k of the sequential rollout from x0 under us, y_0 = x0 being the start
RECURSIVE Sequential(_, _)
Sequential(us, k) ==
  IF k = 0 THEN x0
  ELSE single_rk4_step(Div(vdp_horizon, R(nintervals)), Sequential(us, k - 1), us[k])

\* c(y_1, u_1) + ... + c(y_k, u_k) along the sequential rollout
RECURSIVE SequentialCost(_, _)
SequentialCost(us, k) ==
  IF k = 0 THEN Zero
  ELSE Add(SequentialCost(us, k - 1), c(Sequential(us, k), us[k]))

\* C15: the multiple-shooting objective does not depend on the segment
\* starts: it equals the sum of c over the sequential rollout from x0 under
\* the vector's controls plus x0.x0, which is the single-shooting objective
\* of those controls, and every vector with the same controls and other
\* starts gets the same value.
C15_ObjectiveIgnoresStarts ==
  (script = "ms" /\ pc = "objective") =>
    LET us == ControlsOf(sol)
    IN  /\ objv = Add(SequentialCost(us, nintervals), Dot(x0, x0))
        /\ objv = ss_objective(nintervals, us)
        /\ \A other \in MSObjectiveIterates(nintervals) :
             ControlsOf(other) = us => ms_objective(nintervals, shapes, other) = objv

\* two segments: the second start was set away from the state the rollout
\* reaches, and the last control moves the rollout off x0
C15_Witness ==
  /\ script = "ms" /\ pc = "objective" /\ nintervals = 2
  /\ SegStart(0) = x0
  /\ SegStart(1) = <<Frac(49, 100), Zero>>
  /\ SegControl(0) = One /\ SegControl(1) = Frac(3, 5)
  /\ Sequential(ControlsOf(sol), 1) = x0
  /\ Sequential(ControlsOf(sol), 2) # x0
  /\ objv = ss_objective(2, <<One, Frac(3, 5)>>)

\* residual rows 1..2*j of the multiple-shooting constraints are zero: the
\* first j segments each end on the next segment's start
ChainedUpTo(j) ==
  /\ SegStart(0) = x0
  /\ \A r \in 1..(2 * j) : eqc[r] = Zero

\* C16: a multiple-shooting vector that starts at x0 and whose continuity
\* residuals vanish follows the sequential rollout of its controls:
\* start_{i+1} is the i-th state returned by integrate_fwd, for as many
\* segments as the zero residuals reach; when they reach all N-1 interior
\* joints, the rollout's final state is the last segment's end, so the
\* single-shooting residual final_state - x_T equals the last
\* multiple-shooting block and is zero when that block is.
C16_FeasibleStartsFollowRollout ==
  (script = "ms" /\ pc = "solved") =>
    LET h == Div(vdp_horizon, R(nintervals))
        us == ControlsOf(sol)
        last == <<eqc[2 * nintervals - 1], eqc[2 * nintervals]>>
    IN  /\ \A j \in 1..(nintervals - 1) :
             ChainedUpTo(j) =>
               LET ro == integrate_fwd(h, SubSeq(us, 1, j))
               IN  \A i \in 1..j : SegStart(i) = ro[2][i]
        /\ ChainedUpTo(nintervals - 1) =>
             LET ro == integrate_fwd(h, us)
             IN  /\ \A i \in 1..(nintervals - 1) : SegStart(i) = ro[2][i]
                 /\ ro[1] = SegEnd(nintervals - 1)
                 /\ ss_equality_constraints(nintervals, us) = last
                 /\ last = <<Zero, Zero>> =>
                      /\ ro[1] = xf
                      /\ ss_equality_constraints(nintervals, us) = <<Zero, Zero>>

\* five segments chained from x0: three held at x0, the fourth leaves it
\* under the control 0 and the fifth starts where the fourth ended
C16_Witness ==
  /\ script = "ms" /\ pc = "solved" /\ nintervals = 5
  /\ ChainedUpTo(4)
  /\ ControlsOf(sol) = <<One, One, One, Zero, One>>
  /\ SegStart(3) = x0
  /\ SegStart(4) = <<Frac(-4, 3), R(-1)>>
  /\ SegStart(4) = integrate_fwd(R(2), ControlsOf(sol))[2][4]
  /\ ss_equality_constraints(5, ControlsOf(sol)) = <<eqc[9], eqc[10]>>

====
